---- MODULE Spec2Model ----
(***************************************************************************)
(* A model of src/scraper.py, the race-results scraper: the JSON           *)
(* extraction core (find_result_arrays, score_result_array,                *)
(* normalize_result_row, deduplicate_results, the three platform           *)
(* extractors), the DOM table fallback (scrape_dom_table) and the          *)
(* orchestration of intercept_api_data with its response callback.         *)
(*                                                                         *)
(* JSON values are tagged records: Str, Num, Bool, Null, Obj (an ordered   *)
(* sequence of <<key, value>> pairs, Python dicts keep insertion order)    *)
(* and Arr (a sequence of values).  A normalized row is a function from    *)
(* field names to strings (dict equality ignores insertion order).         *)
(* Python strings are TLA+ strings; lower(), strip(), replace() and the    *)
(* `in` substring test are computed character by character.                *)
(***************************************************************************)
EXTENDS Integers, Sequences, FiniteSets, TLC

VARIABLES
    pc,             \* intercept_api_data: the statement it is about to run
    platform_key,   \* intercept_api_data's argument
    tables,         \* the page's rendered <table> elements (the DOM)
    api_responses,  \* the list the response callback appends to
    captured_data,  \* intercept_api_data's result variable
    source,         \* which extractor last assigned captured_data
    item,           \* normalize_result_row: its argument
    row,            \* normalize_result_row: its return value
    results,        \* deduplicate_results: its argument
    unique,         \* deduplicate_results: its return value
    data,           \* find_result_arrays: its argument
    candidates,     \* find_result_arrays: its return value
    array,          \* score_result_array: its argument arr
    score,          \* score_result_array: its return value
    columns         \* write_csv: the fieldnames it gives the DictWriter

pipeline_vars == <<pc, platform_key, tables, api_responses, captured_data, source>>
normalize_vars == <<item, row>>
dedup_vars == <<results, unique>>
find_vars == <<data, candidates>>
score_vars == <<array, score>>
csv_vars == <<columns>>
vars == <<pc, platform_key, tables, api_responses, captured_data, source,
          item, row, results, unique, data, candidates, array, score, columns>>

(***************************************************************************)
(* Python string primitives.                                               *)
(***************************************************************************)
\* the ASCII letters str.lower() changes
LowerTable ==
    [A |-> "a", B |-> "b", C |-> "c", D |-> "d", E |-> "e", F |-> "f", G |-> "g",
     H |-> "h", I |-> "i", J |-> "j", K |-> "k", L |-> "l", M |-> "m", N |-> "n",
     O |-> "o", P |-> "p", Q |-> "q", R |-> "r", S |-> "s", T |-> "t", U |-> "u",
     V |-> "v", W |-> "w", X |-> "x", Y |-> "y", Z |-> "z"]

CharAt(s, i) == SubSeq(s, i, i)

LowerChar(c) == IF c \in DOMAIN LowerTable THEN LowerTable[c] ELSE c

\* str.lower()
RECURSIVE lower(_)
lower(s) ==
    IF Len(s) = 0 THEN "" ELSE LowerChar(CharAt(s, 1)) \o lower(SubSeq(s, 2, Len(s)))

IsSpace(c) == c \in {" ", "\t", "\n", "\r"}

\* str.strip()
RECURSIVE strip(_)
strip(s) ==
    IF Len(s) = 0 THEN ""
    ELSE IF IsSpace(CharAt(s, 1)) THEN strip(SubSeq(s, 2, Len(s)))
    ELSE IF IsSpace(CharAt(s, Len(s))) THEN strip(SubSeq(s, 1, Len(s) - 1))
    ELSE s

\* s.replace(" ", "_")
RECURSIVE replace_space(_)
replace_space(s) ==
    IF Len(s) = 0 THEN ""
    ELSE (IF CharAt(s, 1) = " " THEN "_" ELSE CharAt(s, 1))
         \o replace_space(SubSeq(s, 2, Len(s)))

\* sub in s
Contains(sub, s) ==
    \E i \in 1..(Len(s) - Len(sub) + 1) : SubSeq(s, i, i + Len(sub) - 1) = sub

(***************************************************************************)
(* JSON values, as json.loads builds them.                                 *)
(***************************************************************************)
Str(s) == [t |-> "str", s |-> s]
Num(n) == [t |-> "num", n |-> n]
Bool(b) == [t |-> "bool", b |-> b]
Null == [t |-> "null"]
Obj(kv) == [t |-> "obj", kv |-> kv]
Arr(els) == [t |-> "arr", els |-> els]

\* The sentinel for Python's None as a function result.
None == [None |-> TRUE]

Keys(obj) == {obj.kv[i][1] : i \in 1..Len(obj.kv)}

\* repr(value), used by str() of a list or of a value inside one
RECURSIVE PyRepr(_), ReprEls(_, _), ReprItems(_, _)
PyRepr(v) ==
    CASE v.t = "str"  -> "'" \o v.s \o "'"
      [] v.t = "num"  -> ToString(v.n)
      [] v.t = "bool" -> IF v.b THEN "True" ELSE "False"
      [] v.t = "null" -> "None"
      [] v.t = "arr"  -> "[" \o ReprEls(v.els, 1) \o "]"
      [] v.t = "obj"  -> "{" \o ReprItems(v.kv, 1) \o "}"
ReprEls(els, i) ==
    IF i > Len(els) THEN ""
    ELSE PyRepr(els[i]) \o (IF i < Len(els) THEN ", " ELSE "") \o ReprEls(els, i + 1)
ReprItems(kv, i) ==
    IF i > Len(kv) THEN ""
    ELSE "'" \o kv[i][1] \o "': " \o PyRepr(kv[i][2])
         \o (IF i < Len(kv) THEN ", " ELSE "") \o ReprItems(kv, i + 1)

\* str(value) if value is not None else ""
PyStr(v) ==
    CASE v.t = "null" -> ""
      [] v.t = "str"  -> v.s
      [] OTHER        -> PyRepr(v)

(***************************************************************************)
(* FIELD_MAP, in the order of the dict literal.                            *)
(***************************************************************************)
FIELD_MAP == <<
    <<"bibno", "bib">>, <<"bib_no", "bib">>, <<"bib_number", "bib">>,
    <<"bibnumber", "bib">>, <<"race_number", "bib">>, <<"start_number", "bib">>,
    <<"first_name", "first_name">>, <<"firstname", "first_name">>,
    <<"last_name", "last_name">>, <<"lastname", "last_name">>,
    <<"full_name", "full_name">>, <<"fullname", "full_name">>, <<"name", "full_name">>,
    <<"runner_name", "full_name">>, <<"participant_name", "full_name">>,
    <<"finished_time", "chip_time">>, <<"finish_time", "chip_time">>,
    <<"chip_time", "chip_time">>, <<"net_time", "chip_time">>, <<"chiptime", "chip_time">>,
    <<"gun_time", "gun_time">>, <<"guntime", "gun_time">>, <<"gross_time", "gun_time">>,
    <<"chip_pace", "pace">>, <<"pace", "pace">>, <<"avg_pace", "pace">>,
    <<"gun_pace", "gun_pace">>,
    <<"overall_rank", "overall_rank">>, <<"overallrank", "overall_rank">>,
    <<"bracket_rank", "category_rank">>, <<"category_rank", "category_rank">>,
    <<"gender_rank", "gender_rank">>,
    <<"gender", "gender">>, <<"sex", "gender">>,
    <<"age", "age">>, <<"age_group", "age_group">>, <<"agegroup", "age_group">>,
    <<"category", "category">>, <<"race_name", "race_category">>,
    <<"club", "club">>, <<"team", "club">>, <<"team_name", "club">>,
    <<"city", "city">>, <<"country", "country">>, <<"nationality", "nationality">> >>

\* FIELD_MAP as the dict it is: source spelling -> canonical field
RECURSIVE DictOf(_, _)
DictOf(pairs, i) ==
    IF i > Len(pairs) THEN [k \in {} |-> ""]
    ELSE DictOf(pairs, i + 1) @@ (pairs[i][1] :> pairs[i][2])

FieldMapDict == DictOf(FIELD_MAP, 1)

\* key in FIELD_MAP
FieldMapHas(k) == k \in DOMAIN FieldMapDict

\* a variant that keeps the source spelling as the row's key
SourceSpelling(k) == k

\* FIELD_MAP[key]
FieldMapGet(k) == FieldMapDict[k]

(***************************************************************************)
(* Rows: Python dicts from field name to string.                           *)
(***************************************************************************)
EmptyRow == [k \in {} |-> ""]

\* row[k] = v
Put(r, k, v) == [x \in (DOMAIN r) \cup {k} |-> IF x = k THEN v ELSE r[x]]

\* row.get(k, "")
Get(r, k) == IF k \in DOMAIN r THEN r[k] ELSE ""

(***************************************************************************)
(* normalize_result_row                                                    *)
(***************************************************************************)
\* the loop over item.items(): one iteration per source key, in order
RECURSIVE NormalizeFields(_, _, _)
NormalizeFields(kv, i, r) ==
    IF i > Len(kv) THEN r
    ELSE LET orig_key == kv[i][1]
             value == kv[i][2]
         IN  IF FieldMapHas(lower(orig_key)) /\ value.t # "obj"
             THEN NormalizeFields(kv, i + 1,
                                  Put(r, FieldMapGet(lower(orig_key)), PyStr(value)))
             ELSE NormalizeFields(kv, i + 1, r)

IdentityFields == {"bib", "full_name", "first_name"}

has_identity(r) == \E k \in IdentityFields : k \in DOMAIN r

\* " ".join(p for p in parts if p).strip()
JoinName(first, last) ==
    strip(IF first # "" /\ last # "" THEN first \o " " \o last
          ELSE IF first # "" THEN first
          ELSE last)

normalize_result_row(it) ==
    LET r == NormalizeFields(it.kv, 1, EmptyRow)
    IN  IF has_identity(r)
        THEN IF "full_name" \notin DOMAIN r /\ "first_name" \in DOMAIN r
             THEN Put(r, "full_name", JoinName(Get(r, "first_name"), Get(r, "last_name")))
             ELSE r
        ELSE None

(***************************************************************************)
(* deduplicate_results                                                     *)
(***************************************************************************)
\* a variant that keys on the bib alone
bib_only_key(r) == Get(r, "bib")

\* row.get("bib", "") or row.get("full_name", "")
dedup_key(r) == IF Get(r, "bib") # "" THEN Get(r, "bib") ELSE Get(r, "full_name")

\* a variant without the `key and` test
KeepsUnseen(key, seen) == key \notin seen

\* `if key and key not in seen`
KeepsRow(key, seen) == key # "" /\ key \notin seen

RECURSIVE DedupLoop(_, _, _, _)
DedupLoop(rs, i, seen, uniq) ==
    IF i > Len(rs) THEN uniq
    ELSE LET key == dedup_key(rs[i])
         IN  IF KeepsRow(key, seen)
             THEN DedupLoop(rs, i + 1, seen \cup {key}, Append(uniq, rs[i]))
             ELSE DedupLoop(rs, i + 1, seen, uniq)

deduplicate_results(rs) == DedupLoop(rs, 1, {}, <<>>)

(***************************************************************************)
(* score_result_array                                                      *)
(***************************************************************************)
strong == {"bibno", "bib_no", "bib", "bib_number", "finished_time", "finish_time",
           "chip_time", "gun_time", "net_time", "pace", "rank", "overall_rank",
           "bracket_rank", "category_rank", "gender_rank"}

moderate == {"first_name", "last_name", "name", "full_name", "runner_name",
             "participant", "age", "gender", "sex", "category", "race_name",
             "race_id", "club", "city", "country", "nationality"}

SizeBonus1 == 20
SizeBonus2 == 100

\* a variant with the first length bonus only
score_one_bonus(arr) ==
    IF Len(arr.els) = 0 \/ arr.els[1].t # "obj" THEN 0
    ELSE LET keys == {lower(k) : k \in Keys(arr.els[1])}
         IN  2 * Cardinality(strong \cap keys)
             + Cardinality(moderate \cap keys)
             + (IF Len(arr.els) > SizeBonus1 THEN 2 ELSE 0)

score_result_array(arr) ==
    IF Len(arr.els) = 0 \/ arr.els[1].t # "obj" THEN 0
    ELSE LET keys == {lower(k) : k \in Keys(arr.els[1])}
         IN  2 * Cardinality(strong \cap keys)
             + Cardinality(moderate \cap keys)
             + (IF Len(arr.els) > SizeBonus1 THEN 2 ELSE 0)
             + (IF Len(arr.els) > SizeBonus2 THEN 2 ELSE 0)

(***************************************************************************)
(* find_result_arrays                                                      *)
(***************************************************************************)
DefaultMaxDepth == 5
ScoreThreshold == 2

\* a variant that stops one level early
StopsAtMaxDepth(depth, max_depth) == depth >= max_depth

\* `if depth > max_depth: return []`
TooDeep(depth, max_depth) == depth > max_depth

\* the test that appends `data` itself to the candidates
IsCandidate(d) ==
    /\ d.t = "arr"
    /\ Len(d.els) > 0
    /\ d.els[1].t = "obj"
    /\ score_result_array(d) > ScoreThreshold

\* the values find_result_arrays recurses into
Descends(value) == value.t \in {"arr", "obj"}

RECURSIVE find_result_arrays(_, _, _), FindInValues(_, _, _, _)
find_result_arrays(d, depth, max_depth) ==
    IF TooDeep(depth, max_depth) THEN <<>>
    ELSE (IF IsCandidate(d) THEN <<d>> ELSE <<>>)
         \o (IF d.t = "obj" THEN FindInValues(d.kv, 1, depth, max_depth) ELSE <<>>)
\* the loop over data.items()
FindInValues(kv, i, depth, max_depth) ==
    IF i > Len(kv) THEN <<>>
    ELSE (IF Descends(kv[i][2])
          THEN find_result_arrays(kv[i][2], depth + 1, max_depth)
          ELSE <<>>)
         \o FindInValues(kv, i + 1, depth, max_depth)

(***************************************************************************)
(* The platform extractors.                                                *)
(***************************************************************************)
StsKeys == {"bibno", "bib_no", "first_name", "finished_time", "gun_time"}

\* a variant that applies no platform-specific key test
PassesAnyObject(platform, it) == it.t = "obj"

\* the condition under which an element of a candidate array is handed
\* to normalize_result_row
PassesToNormalizer(platform, it) ==
    IF platform = "sts"
    THEN it.t = "obj" /\ \E k \in StsKeys : k \in Keys(it)
    ELSE it.t = "obj"

\* `for item in arr`: the elements handed to normalize_result_row
RECURSIVE ItemsOfArray(_, _, _)
ItemsOfArray(platform, els, i) ==
    IF i > Len(els) THEN <<>>
    ELSE (IF PassesToNormalizer(platform, els[i]) THEN <<els[i]>> ELSE <<>>)
         \o ItemsOfArray(platform, els, i + 1)

\* `for arr in candidates`
RECURSIVE ItemsOfCandidates(_, _, _)
ItemsOfCandidates(platform, cands, i) ==
    IF i > Len(cands) THEN <<>>
    ELSE ItemsOfArray(platform, cands[i].els, 1)
         \o ItemsOfCandidates(platform, cands, i + 1)

\* `for resp in api_responses`
RECURSIVE ItemsOfResponses(_, _, _)
ItemsOfResponses(platform, resps, i) ==
    IF i > Len(resps) THEN <<>>
    ELSE ItemsOfCandidates(platform,
                           find_result_arrays(resps[i].data, 0, DefaultMaxDepth), 1)
         \o ItemsOfResponses(platform, resps, i + 1)

\* `row = normalize_result_row(item); if row: results.append(row)`
RECURSIVE NormalizeAll(_, _)
NormalizeAll(items, i) ==
    IF i > Len(items) THEN <<>>
    ELSE LET r == normalize_result_row(items[i])
         IN  (IF r # None /\ r # EmptyRow THEN <<r>> ELSE <<>>)
             \o NormalizeAll(items, i + 1)

extract_sts_data(resps) ==
    deduplicate_results(NormalizeAll(ItemsOfResponses("sts", resps, 1), 1))

extract_mysamay_data(resps) ==
    deduplicate_results(NormalizeAll(ItemsOfResponses("mysamay", resps, 1), 1))

\* sorted(api_responses, key=size, reverse=True): stable, equal sizes keep
\* their arrival order
InsertBySize(s, x) ==
    LET k == Cardinality({j \in 1..Len(s) : s[j].size >= x.size})
    IN  SubSeq(s, 1, k) \o <<x>> \o SubSeq(s, k + 1, Len(s))

RECURSIVE SortLoop(_, _, _)
SortLoop(resps, i, acc) ==
    IF i > Len(resps) THEN acc
    ELSE SortLoop(resps, i + 1, InsertBySize(acc, resps[i]))

\* a variant that processes the payloads in arrival order
unsorted_responses(resps) == resps

sorted_responses(resps) == SortLoop(resps, 1, <<>>)

extract_generic_data(resps) ==
    deduplicate_results(
        NormalizeAll(ItemsOfResponses("generic", sorted_responses(resps), 1), 1))

(***************************************************************************)
(* scrape_dom_table.  A table is its sequence of <tr> rows, a row its      *)
(* sequence of cells [tag, text].                                          *)
(***************************************************************************)
MinTableRows == 3

results_keywords == {"bib", "name", "time", "finish", "rank", "pace", "position"}

\* header_row.query_selector_all("th, td"), inner_text().strip().lower()
HeadersOf(tr) == [i \in 1..Len(tr) |-> lower(strip(tr[i].text))]

\* row.query_selector_all("td")
IsTd(c) == c.tag = "td"
DataCells(tr) == SelectSeq(tr, IsTd)

\* " ".join(headers)
RECURSIVE JoinSpace(_, _)
JoinSpace(ss, i) ==
    IF i > Len(ss) THEN ""
    ELSE ss[i] \o (IF i < Len(ss) THEN " " ELSE "") \o JoinSpace(ss, i + 1)

LooksLikeResults(headers) ==
    \E kw \in results_keywords : Contains(kw, JoinSpace(headers, 1))

\* the `else` branch of the FIELD_MAP loop: the fuzzy cascade
FuzzyField(h) ==
    IF Contains("bib", h) THEN <<"bib">>
    ELSE IF Contains("name", h) THEN <<"full_name">>
    ELSE IF Contains("finish", h) \/ Contains("chip", h) \/ Contains("net", h)
         THEN <<"chip_time">>
    ELSE IF Contains("gun", h) \/ Contains("gross", h) THEN <<"gun_time">>
    ELSE IF Contains("rank", h) \/ Contains("pos", h)
         THEN IF Contains("overall", h) THEN <<"overall_rank">>
              ELSE IF Contains("gender", h) \/ Contains("category", h)
                   THEN <<"category_rank">>
              ELSE <<"overall_rank">>
    ELSE IF Contains("pace", h) THEN <<"pace">>
    ELSE IF Contains("age", h) THEN <<"age_group">>
    ELSE IF Contains("gender", h) \/ Contains("sex", h) THEN <<"gender">>
    ELSE IF Contains("category", h) \/ Contains("race", h) THEN <<"category">>
    ELSE IF Contains("club", h) \/ Contains("team", h) THEN <<"club">>
    ELSE <<>>

\* header_map[i] for one header: <<field>>, or <<>> when the column is unmapped
HeaderField(h) ==
    LET u == replace_space(h)
        hits == {i \in 1..Len(FIELD_MAP) : Contains(FIELD_MAP[i][1], u)}
    IN  IF hits # {}
        THEN <<FIELD_MAP[CHOOSE i \in hits : \A j \in hits : i <= j][2]>>
        ELSE FuzzyField(h)

HeaderMap(headers) ==
    [i \in {j \in 1..Len(headers) : HeaderField(headers[j]) # <<>>}
        |-> HeaderField(headers[i])[1]]

\* `for i, cell in enumerate(cells)`: later columns overwrite earlier ones
RECURSIVE ResultRow(_, _, _, _)
ResultRow(cells, header_map, i, r) ==
    IF i > Len(cells) THEN r
    ELSE ResultRow(cells, header_map, i + 1,
                   IF i \in DOMAIN header_map
                   THEN Put(r, header_map[i], strip(cells[i].text))
                   ELSE r)

\* `for row in rows[1:]`
RECURSIVE DataRows(_, _, _)
DataRows(rows, header_map, i) ==
    IF i > Len(rows) THEN <<>>
    ELSE LET cells == DataCells(rows[i])
             r == ResultRow(cells, header_map, 1, EmptyRow)
         IN  (IF Len(cells) # 0 /\ r # EmptyRow THEN <<r>> ELSE <<>>)
             \o DataRows(rows, header_map, i + 1)

\* a variant that accepts a table of any length
TableRowsAnyLength(rows) ==
    LET headers == HeadersOf(rows[1])
    IN  IF Len(headers) = 0 \/ ~LooksLikeResults(headers) THEN <<>>
        ELSE DataRows(rows, HeaderMap(headers), 2)

\* one iteration of `for table in tables`
TableRows(rows) ==
    IF Len(rows) < MinTableRows THEN <<>>
    ELSE LET headers == HeadersOf(rows[1])
         IN  IF Len(headers) = 0 \/ ~LooksLikeResults(headers) THEN <<>>
             ELSE DataRows(rows, HeaderMap(headers), 2)

RECURSIVE ScrapeTables(_, _)
ScrapeTables(tbls, i) ==
    IF i > Len(tbls) THEN <<>>
    ELSE TableRows(tbls[i]) \o ScrapeTables(tbls, i + 1)

\* wait_for_selector("table") times out when the page has no table
scrape_dom_table(tbls) ==
    IF Len(tbls) = 0 THEN <<>> ELSE ScrapeTables(tbls, 1)

(***************************************************************************)
(* The inputs of the pipeline: the responses the page may fire and the     *)
(* tables it may render.                                                   *)
(***************************************************************************)
MaxResponses == 4

Field(k, s) == <<k, Str(s)>>

ItemAsha ==
    Obj(<<Field("bibno", "101"), Field("first_name", "Asha"), Field("last_name", "Rao"),
          Field("finished_time", "00:45:12"), Field("overall_rank", "3")>>)
ItemDev ==
    Obj(<<Field("bibno", "102"), Field("full_name", "Dev Kumar"),
          Field("chip_time", "00:46:01"), Field("overall_rank", "4")>>)
\* the same runner as ItemAsha under another vendor's spelling
ItemAshaNet ==
    Obj(<<Field("bib_number", "101"), Field("name", "Asha R"),
          Field("chip_time", "00:45:13")>>)
\* the same bib once more, gun time only
ItemAshaGun ==
    Obj(<<Field("BibNo", "101"), Field("gun_time", "00:45:40"), <<"pace", Null>>>>)
ItemMenu == Obj(<<Field("title", "Home"), Field("href", "/")>>)

Response(url, ct, size, parses, d) ==
    [url |-> url, content_type |-> ct, status |-> 200, size |-> size,
     parses |-> parses, data |-> d]

Responses ==
    { Response("/api/results", "application/json", 300, TRUE,
               Obj(<<Field("status", "ok"), <<"data", Arr(<<ItemAsha, ItemDev>>)>>>>)),
      Response("/api/net", "application/json; charset=utf-8", 120, TRUE,
               Obj(<<<<"results", Arr(<<ItemAshaNet>>)>>>>)),
      Response("/api/gun", "text/json", 300, TRUE, Arr(<<ItemAshaGun>>)),
      Response("/api/menu", "application/json", 80, TRUE,
               Obj(<<<<"menu", Arr(<<ItemMenu>>)>>>>)),
      Response("/api/ping", "application/json", 40, TRUE,
               Arr(<<Obj(<<Field("bibno", "9"), Field("pace", "5")>>)>>)),
      Response("/index.html", "text/html", 900, FALSE, Null),
      Response("/api/broken", "application/json", 70, FALSE, Null) }

Cells(tag, texts) == [i \in 1..Len(texts) |-> [tag |-> tag, text |-> texts[i]]]

HeaderBibNameTime == Cells("th", <<"Bib", " Name", "Finish Time ">>)
TableResults ==
    <<HeaderBibNameTime,
      Cells("td", <<"55", "Ravi Shah", "01:02:33">>),
      Cells("td", <<"56", "Mira Nair", " 01:03:10">>)>>
\* the same finisher listed twice (an overall and a category listing)
TableRepeated ==
    <<HeaderBibNameTime,
      Cells("td", <<"55", "Ravi Shah", "01:02:33">>),
      Cells("td", <<"55", "Ravi Shah", "01:02:33">>),
      Cells("td", <<"57", "", "">>)>>
TableOneRow ==
    <<HeaderBibNameTime, Cells("td", <<"55", "Ravi Shah", "01:02:33">>)>>
TableSponsor ==
    <<Cells("th", <<"Sponsor", "Logo">>),
      Cells("td", <<"Acme", "acme.png">>),
      Cells("td", <<"Zed", "zed.png">>)>>
TableSplits ==
    <<Cells("td", <<"Split", "Pace", "Rank">>),
      Cells("td", <<"5K", "04:31", "3">>),
      Cells("td", <<"10K", "04:35", "4">>)>>

Pages ==
    { <<>>, <<TableResults>>, <<TableSponsor, TableRepeated>>, <<TableOneRow>>,
      <<TableSplits>> }

Platforms == {"sts", "mysamay", "generic"}

(***************************************************************************)
(* intercept_api_data and its response callback.                           *)
(***************************************************************************)
MinBodyLen == 50

\* the pipeline before intercept_api_data is called
PipelineIdle ==
    /\ platform_key = "generic" /\ tables = <<>>
    /\ api_responses = <<>> /\ captured_data = <<>> /\ source = "none"

Init ==
    /\ pc = "goto"
    /\ platform_key \in Platforms
    /\ tables \in Pages
    /\ api_responses = <<>>
    /\ captured_data = <<>>
    /\ source = "none"
    /\ item = Obj(<<>>) /\ row = None
    /\ results = <<>> /\ unique = <<>>
    /\ data = Null /\ candidates = <<>>
    /\ array = Arr(<<>>) /\ score = 0 /\ columns = <<>>

\* the callback runs whenever the coroutine is suspended in an await and the
\* page is open
PageOpen == pc \in {"goto", "scroll", "click", "fallback", "except"}

Captured(r) == \E i \in 1..Len(api_responses) : api_responses[i].url = r.url

\* capture_response, from the response event to the append: callbacks of
\* several responses complete in any order
capture_response(response) ==
    /\ PageOpen
    /\ Len(api_responses) < MaxResponses
    /\ ~Captured(response)
    /\ Contains("json", response.content_type)
    /\ response.size > MinBodyLen
    /\ response.parses
    /\ api_responses' = Append(api_responses,
                               [url |-> response.url, status |-> response.status,
                                data |-> response.data, size |-> response.size])
    /\ UNCHANGED <<pc, platform_key, tables, captured_data, source>>
    /\ UNCHANGED <<normalize_vars, dedup_vars, find_vars, score_vars, csv_vars>>

\* a response the callback drops: wrong content type, a body of at most 50
\* characters, or a body json.loads rejects
drop_response(response) ==
    /\ PageOpen
    /\ ~Captured(response)
    /\ \/ ~Contains("json", response.content_type)
       \/ response.size <= MinBodyLen
       \/ ~response.parses
    /\ UNCHANGED vars

\* page.goto(...) and the first wait
Goto ==
    /\ pc = "goto"
    /\ pc' = "scroll"
    /\ UNCHANGED <<platform_key, tables, api_responses, captured_data, source>>
    /\ UNCHANGED <<normalize_vars, dedup_vars, find_vars, score_vars, csv_vars>>

\* the three scrollTo evaluations
Scroll ==
    /\ pc = "scroll"
    /\ pc' = "click"
    /\ UNCHANGED <<platform_key, tables, api_responses, captured_data, source>>
    /\ UNCHANGED <<normalize_vars, dedup_vars, find_vars, score_vars, csv_vars>>

\* the "Load More" loop: every exception in it is swallowed
Click ==
    /\ pc = "click"
    /\ pc' = "extract"
    /\ UNCHANGED <<platform_key, tables, api_responses, captured_data, source>>
    /\ UNCHANGED <<normalize_vars, dedup_vars, find_vars, score_vars, csv_vars>>

\* page.goto, wait_for_timeout or page.evaluate raises: control reaches
\* `except Exception`
LoadRaises ==
    /\ pc \in {"goto", "scroll"}
    /\ pc' = "except"
    /\ UNCHANGED <<platform_key, tables, api_responses, captured_data, source>>
    /\ UNCHANGED <<normalize_vars, dedup_vars, find_vars, score_vars, csv_vars>>

\* the platform-specific extraction strategies
ExtractFor(platform, resps) ==
    IF platform = "sts" THEN extract_sts_data(resps)
    ELSE IF platform = "mysamay" THEN extract_mysamay_data(resps)
    ELSE extract_generic_data(resps)

Extract ==
    /\ pc = "extract"
    /\ captured_data' = ExtractFor(platform_key, api_responses)
    /\ source' = "json"
    /\ pc' = IF captured_data' = <<>> THEN "fallback" ELSE "done"
    /\ UNCHANGED <<platform_key, tables, api_responses>>
    /\ UNCHANGED <<normalize_vars, dedup_vars, find_vars, score_vars, csv_vars>>

\* `if not captured_data: captured_data = await scrape_dom_table(...)`
Fallback ==
    /\ pc = "fallback"
    /\ captured_data' = scrape_dom_table(tables)
    /\ source' = "dom"
    /\ pc' = "done"
    /\ UNCHANGED <<platform_key, tables, api_responses>>
    /\ UNCHANGED <<normalize_vars, dedup_vars, find_vars, score_vars, csv_vars>>

\* scrape_dom_table raises inside the try block
FallbackRaises ==
    /\ pc = "fallback"
    /\ pc' = "except"
    /\ UNCHANGED <<platform_key, tables, api_responses, captured_data, source>>
    /\ UNCHANGED <<normalize_vars, dedup_vars, find_vars, score_vars, csv_vars>>

\* the except handler's DOM fallback
ExceptFallback ==
    /\ pc = "except"
    /\ captured_data' = scrape_dom_table(tables)
    /\ source' = "dom"
    /\ pc' = "done"
    /\ UNCHANGED <<platform_key, tables, api_responses>>
    /\ UNCHANGED <<normalize_vars, dedup_vars, find_vars, score_vars, csv_vars>>

\* "DOM fallback also failed": captured_data keeps its value
ExceptFallbackRaises ==
    /\ pc = "except"
    /\ pc' = "done"
    /\ UNCHANGED <<platform_key, tables, api_responses, captured_data, source>>
    /\ UNCHANGED <<normalize_vars, dedup_vars, find_vars, score_vars, csv_vars>>

Next ==
    \/ \E response \in Responses : capture_response(response)
    \/ \E response \in Responses : drop_response(response)
    \/ Goto
    \/ Scroll
    \/ Click
    \/ LoadRaises
    \/ Extract
    \/ Fallback
    \/ FallbackRaises
    \/ ExceptFallback
    \/ ExceptFallbackRaises

Spec == Init /\ [][Next]_vars

(***************************************************************************)
(* Properties of the result set intercept_api_data returns.                *)
(***************************************************************************)
\* the dedup key as the specification defines it: bib if non-empty, else full_name
KeyOf(r) ==
    IF "bib" \in DOMAIN r /\ r["bib"] # "" THEN r["bib"]
    ELSE IF "full_name" \in DOMAIN r THEN r["full_name"]
    ELSE ""

NoSharedKey(rs) ==
    \A i, j \in 1..Len(rs) :
        i # j => KeyOf(rs[i]) = "" \/ KeyOf(rs[j]) = "" \/ KeyOf(rs[i]) # KeyOf(rs[j])

HasIdentityField(r) ==
    "bib" \in DOMAIN r \/ "full_name" \in DOMAIN r \/ "first_name" \in DOMAIN r

\* C1: in every result set intercept_api_data returns, from a JSON path or
\* from the DOM table fallback, no two distinct rows have the same non-empty
\* dedup key.
C1_ReturnedRowsHaveDistinctKeys ==
    pc = "done" => NoSharedKey(captured_data)

\* C2: every row of a result set handed to the writer, from a JSON path or
\* from the DOM table fallback, has at least one of bib, full_name, first_name.
C2_ReturnedRowsHaveIdentity ==
    pc = "done" => \A i \in 1..Len(captured_data) : HasIdentityField(captured_data[i])

(***************************************************************************)
(* C9: which elements reach the normalizer on each platform path.          *)
(***************************************************************************)
IsObj(v) == v.t = "obj"

\* the accepted candidate arrays of the payloads, in processing order
RECURSIVE AcceptedArrays(_, _)
AcceptedArrays(resps, i) ==
    IF i > Len(resps) THEN <<>>
    ELSE find_result_arrays(resps[i].data, 0, DefaultMaxDepth)
         \o AcceptedArrays(resps, i + 1)

RECURSIVE ObjectElements(_, _)
ObjectElements(arrs, i) ==
    IF i > Len(arrs) THEN <<>>
    ELSE SelectSeq(arrs[i].els, IsObj) \o ObjectElements(arrs, i + 1)

HasStsKey(it) ==
    \E k \in {"bibno", "bib_no", "first_name", "finished_time", "gun_time"} :
        \E i \in 1..Len(it.kv) : it.kv[i][1] = k

\* C9 as stated: on every platform path every object element of every
\* accepted candidate array is passed to normalize_result_row, and the sts
\* and mysamay extractors return the same rows for the same payloads.
C9_EveryElementNormalizedOnEveryPath ==
    pc = "extract" =>
        LET elements == ObjectElements(AcceptedArrays(api_responses, 1), 1)
        IN  /\ ItemsOfResponses("sts", api_responses, 1) = elements
            /\ ItemsOfResponses("mysamay", api_responses, 1) = elements
            /\ extract_sts_data(api_responses) = extract_mysamay_data(api_responses)

\* C9 as amended: the mysamay and generic paths pass every object element of
\* every accepted candidate array to normalize_result_row; the sts path
\* passes only the elements that have one of the keys bibno, bib_no,
\* first_name, finished_time, gun_time; the sts and mysamay extractors return
\* the same rows when every object element has such a key.
C9_StsPassesOnlyKeyedElements ==
    pc = "extract" =>
        LET elements == ObjectElements(AcceptedArrays(api_responses, 1), 1)
            sorted == sorted_responses(api_responses)
        IN  /\ ItemsOfResponses("mysamay", api_responses, 1) = elements
            /\ ItemsOfResponses("generic", sorted, 1)
                   = ObjectElements(AcceptedArrays(sorted, 1), 1)
            /\ ItemsOfResponses("sts", api_responses, 1) = SelectSeq(elements, HasStsKey)
            /\ (\A i \in 1..Len(elements) : HasStsKey(elements[i]))
                   => extract_sts_data(api_responses) = extract_mysamay_data(api_responses)

\* an sts run returned rows although a payload held only elements without
\* any sts key, and the mysamay extractor returns other rows
C9_Witness ==
    /\ pc = "done" /\ platform_key = "sts" /\ source = "json"
    /\ captured_data # <<>>
    /\ captured_data = extract_sts_data(api_responses)
    /\ captured_data # extract_mysamay_data(api_responses)
    /\ \E i \in 1..Len(api_responses) :
          LET els == ObjectElements(AcceptedArrays(<<api_responses[i]>>, 1), 1)
          IN  els # <<>> /\ \A j \in 1..Len(els) : ~HasStsKey(els[j])

(***************************************************************************)
(* C10: the generic path and the arrival order of the payloads.            *)
(***************************************************************************)
\* the rows one payload yields
RowsOfPayload(resp) == NormalizeAll(ItemsOfResponses("generic", <<resp>>, 1), 1)

KeysIn(rs) == {KeyOf(rs[i]) : i \in 1..Len(rs)}

FirstWithKey(rs, k) ==
    rs[CHOOSE n \in 1..Len(rs) : KeyOf(rs[n]) = k /\ \A m \in 1..(n - 1) : KeyOf(rs[m]) # k]

\* every order in which the callbacks may have appended the same payloads
Arrivals(resps) ==
    LET n == Len(resps)
        orders == {f \in [1..n -> 1..n] : \A a, b \in 1..n : a # b => f[a] # f[b]}
    IN  {[i \in 1..n |-> resps[f[i]]] : f \in orders}

DistinctSizes(resps) ==
    \A i, j \in 1..Len(resps) : i # j => resps[i].size # resps[j].size

\* for each row of `out`: it is the first row with its key of a payload that
\* is no smaller than any other payload holding that key
KeptFromLargest(out, resps) ==
    LET n == Len(resps)
    IN  \A x \in 1..Len(out) :
            \E i \in 1..n :
                LET ri == RowsOfPayload(resps[i])
                IN  /\ KeyOf(out[x]) \in KeysIn(ri)
                    /\ out[x] = FirstWithKey(ri, KeyOf(out[x]))
                    /\ \A j \in 1..n :
                          KeyOf(out[x]) \in KeysIn(RowsOfPayload(resps[j]))
                              => resps[j].size <= resps[i].size

\* C10: on the generic path the row kept for a non-empty dedup key comes from
\* a payload of the largest byte size among the payloads holding that key,
\* whatever the order the callbacks appended them in; for payloads of
\* pairwise distinct sizes the result is the same for every arrival order.
C10_LargestPayloadWins ==
    /\ pc = "extract" =>
          LET out == extract_generic_data(api_responses)
          IN  /\ KeptFromLargest(out, api_responses)
              /\ DistinctSizes(api_responses)
                     => \A arrival \in Arrivals(api_responses) :
                            extract_generic_data(arrival) = out
    /\ (pc = "done" /\ platform_key = "generic" /\ source = "json"
            /\ captured_data # <<>>)
          => captured_data = extract_generic_data(api_responses)

\* a generic run in which the smaller of two payloads holding bib 101 arrived
\* first and the returned row is the larger payload's
C10_Witness ==
    /\ pc = "done" /\ platform_key = "generic" /\ source = "json"
    /\ Len(api_responses) >= 2
    /\ DistinctSizes(api_responses)
    /\ api_responses[1].size < api_responses[2].size
    /\ LET r1 == RowsOfPayload(api_responses[1])
           r2 == RowsOfPayload(api_responses[2])
       IN  /\ "101" \in KeysIn(r1) /\ "101" \in KeysIn(r2)
           /\ FirstWithKey(r1, "101") # FirstWithKey(r2, "101")
           /\ \E n \in 1..Len(captured_data) :
                 captured_data[n] = FirstWithKey(r2, "101")

(***************************************************************************)
(* C11: when the DOM table extractor is called.                            *)
(***************************************************************************)
\* control arrives at a call of scrape_dom_table: line 227 after the
\* extraction, or line 233 in the except handler
DomCalled == pc' \in {"fallback", "except"} /\ pc' # pc

\* C11: the DOM table extractor is called only when the JSON path yields zero
\* rows: scrape_dom_table is never called while the payloads captured so far
\* would yield a row through the platform's JSON extractor, also when page
\* load or scrolling raises after payloads were captured.
C11_DomOnlyAfterEmptyJson ==
    [][DomCalled => ExtractFor(platform_key', api_responses') = <<>>]_vars

(***************************************************************************)
(* normalize_result_row on its own: source objects are built one field at  *)
(* a time, normalized, and the returned row is normalized once more with   *)
(* its canonical field names as source keys.                               *)
(***************************************************************************)
MaxFields == 2

SourceKeys ==
    {"bibno", "Bib_No", "first_name", "last_name", "name", "age", "race_name", "club"}

SourceValues == {Str("Asha"), Null, Num(7), Obj(<<Field("id", "9")>>)}

\* a set as a sequence, in a fixed order
RECURSIVE SeqOfSet(_)
SeqOfSet(S) ==
    IF S = {} THEN <<>>
    ELSE LET x == CHOOSE y \in S : TRUE IN <<x>> \o SeqOfSet(S \ {x})

\* a returned row as a source object: its canonical names as keys.  No two
\* canonical names lower-case to the same FIELD_MAP key, so the order of the
\* keys does not change the result.
RowAsItem(r) ==
    LET ks == SeqOfSet(DOMAIN r)
    IN  Obj([i \in 1..Len(ks) |-> <<ks[i], Str(r[ks[i]])>>])

InitNormalize ==
    /\ pc = "item"
    /\ PipelineIdle
    /\ item = Obj(<<>>) /\ row = None
    /\ results = <<>> /\ unique = <<>>
    /\ data = Null /\ candidates = <<>>
    /\ array = Arr(<<>>) /\ score = 0 /\ columns = <<>>

AddField(k, v) ==
    /\ pc = "item"
    /\ Len(item.kv) < MaxFields
    /\ k \notin Keys(item)
    /\ item' = Obj(Append(item.kv, <<k, v>>))
    /\ UNCHANGED <<pc, row, pipeline_vars, dedup_vars, find_vars, score_vars, csv_vars>>

Normalize ==
    /\ pc = "item"
    /\ row' = normalize_result_row(item)
    /\ pc' = "normalized"
    /\ UNCHANGED <<item, platform_key, tables, api_responses, captured_data, source>>
    /\ UNCHANGED <<dedup_vars, find_vars, score_vars, csv_vars>>

Renormalize ==
    /\ pc = "normalized"
    /\ row # None
    /\ item' = RowAsItem(row)
    /\ row' = normalize_result_row(item')
    /\ pc' = "renormalized"
    /\ UNCHANGED <<platform_key, tables, api_responses, captured_data, source>>
    /\ UNCHANGED <<dedup_vars, find_vars, score_vars, csv_vars>>

NextNormalize ==
    \/ \E k \in SourceKeys, v \in SourceValues : AddField(k, v)
    \/ Normalize
    \/ Renormalize

SpecNormalize == InitNormalize /\ [][NextNormalize]_vars

\* the row a source object of plain string values spells out
ItemAsRow(it) ==
    [k \in {it.kv[i][1] : i \in 1..Len(it.kv)}
        |-> (it.kv[CHOOSE i \in 1..Len(it.kv) : it.kv[i][1] = k][2]).s]

\* C5: normalizing a returned row once more, its canonical field names used
\* as source keys, returns an identical row.
C5_NormalizeIdempotent ==
    pc = "renormalized" => row = ItemAsRow(item)

CanonicalField ==
    {"bib", "full_name", "first_name", "last_name", "gender", "age_group", "category",
     "race_category", "club", "city", "country", "nationality", "chip_time",
     "gun_time", "pace", "gun_pace", "overall_rank", "category_rank", "gender_rank"}

\* C7 as stated: every key of every returned row is a CanonicalField.
C7_KeysAreCanonical ==
    (pc = "normalized" /\ row # None) => DOMAIN row \subseteq CanonicalField

\* C7 as amended: every key of every returned row is a CanonicalField or
\* the field age.
C7_KeysAreCanonicalOrAge ==
    (pc = "normalized" /\ row # None) => DOMAIN row \subseteq CanonicalField \cup {"age"}

\* a returned row that carries the field age
C7_Witness ==
    /\ pc = "normalized" /\ row # None
    /\ "age" \in DOMAIN row
    /\ "age" \in {lower(k) : k \in Keys(item)}

\* C8: a row is returned only when one of bib, full_name, first_name has a
\* non-empty value in it; otherwise normalize_result_row returns absent.
C8_ReturnedRowIsPopulated ==
    (pc = "normalized" /\ row # None) =>
        \E k \in {"bib", "full_name", "first_name"} : k \in DOMAIN row /\ row[k] # ""

(***************************************************************************)
(* deduplicate_results on its own.                                         *)
(***************************************************************************)
MaxRows == 4

RowUniverse ==
    { [bib |-> "101", full_name |-> "Asha Rao", chip_time |-> "00:45:12"],
      [bib |-> "101", full_name |-> "Asha R", chip_time |-> "00:45:13",
       gun_time |-> "00:45:40"],
      [bib |-> "102", full_name |-> "Dev Kumar"],
      [full_name |-> "Asha Rao", club |-> "Runners Co"],
      [bib |-> "", full_name |-> "Asha Rao", chip_time |-> "00:45:12"],
      [full_name |-> "101"],
      [bib |-> "", full_name |-> "", chip_time |-> "00:50:00"],
      [first_name |-> "", full_name |-> ""] }

InitDedup ==
    /\ pc = "results"
    /\ PipelineIdle
    /\ item = Obj(<<>>) /\ row = None
    /\ results = <<>> /\ unique = <<>>
    /\ data = Null /\ candidates = <<>>
    /\ array = Arr(<<>>) /\ score = 0 /\ columns = <<>>

AppendRow(r) ==
    /\ pc = "results"
    /\ Len(results) < MaxRows
    /\ results' = Append(results, r)
    /\ UNCHANGED <<pc, unique, pipeline_vars, normalize_vars, find_vars, score_vars, csv_vars>>

Deduplicate ==
    /\ pc = "results"
    /\ unique' = deduplicate_results(results)
    /\ pc' = "deduplicated"
    /\ UNCHANGED <<results, platform_key, tables, api_responses, captured_data, source>>
    /\ UNCHANGED <<normalize_vars, find_vars, score_vars, csv_vars>>

NextDedup ==
    \/ \E r \in RowUniverse : AppendRow(r)
    \/ Deduplicate

SpecDedup == InitDedup /\ [][NextDedup]_vars

Keyed(r) == KeyOf(r) # ""
Keyless(r) == KeyOf(r) = ""

\* the positions of the first row of each non-empty key
FirstOccurrences(rs) ==
    {i \in 1..Len(rs) : Keyed(rs[i]) /\ \A j \in 1..(i - 1) : KeyOf(rs[j]) # KeyOf(rs[i])}

\* the n-th smallest member of a set of positions
NthOf(S, n) == CHOOSE i \in S : Cardinality({j \in S : j < i}) = n - 1

\* C3: for every non-empty dedup key deduplicate_results keeps exactly the
\* first row in input order that carries the key and drops the later ones,
\* whatever their other fields; the kept rows are in input order.
C3_FirstOccurrenceWins ==
    pc = "deduplicated" =>
        LET kept == SelectSeq(unique, Keyed)
            firsts == FirstOccurrences(results)
        IN  /\ Len(kept) = Cardinality(firsts)
            /\ \A n \in 1..Len(kept) : kept[n] = results[NthOf(firsts, n)]

\* a later row with the key of an earlier one and more fields was dropped
C3_Witness ==
    /\ pc = "deduplicated"
    /\ \E i, j \in 1..Len(results) :
          /\ i < j
          /\ Keyed(results[i]) /\ KeyOf(results[i]) = KeyOf(results[j])
          /\ DOMAIN results[i] \subseteq DOMAIN results[j]
          /\ DOMAIN results[i] # DOMAIN results[j]
          /\ \A n \in 1..Len(unique) : unique[n] # results[j]
          /\ \E n \in 1..Len(unique) : unique[n] = results[i]
    /\ Len(unique) >= 2

\* C4 as stated: every row whose bib and full_name are both empty or absent
\* is passed through to the output, however many the input holds.
C4_KeylessRowsKept ==
    pc = "deduplicated" => SelectSeq(unique, Keyless) = SelectSeq(results, Keyless)

\* C4 as amended: no row whose bib and full_name are both empty or absent is
\* passed through to the output, however many the input holds.
C4_KeylessRowsDropped ==
    pc = "deduplicated" => SelectSeq(unique, Keyless) = <<>>

\* an input with a keyless row and a keyed row, of which only the keyed one
\* is in the output
C4_Witness ==
    /\ pc = "deduplicated"
    /\ \E i \in 1..Len(results) : Keyless(results[i])
    /\ \E i \in 1..Len(results) : Keyed(results[i])
    /\ unique # <<>>
    /\ Len(unique) < Len(results)

(***************************************************************************)
(* find_result_arrays on its own: a JSON tree is grown around a leaf array *)
(* one enclosing value at a time, then searched.                           *)
(***************************************************************************)
MaxHeight == 8

\* a results array, an array that scores exactly 2, one with no recognised
\* key, and one whose first element is not an object
Leaves ==
    { Arr(<<ItemAsha, ItemDev>>),
      Arr(<<Obj(<<Field("bibno", "9")>>)>>),
      Arr(<<ItemMenu>>),
      Arr(<<Str("101"), ItemDev>>) }

\* the number of nested containers
RECURSIVE Height(_), MaxHeightOf(_, _)
Height(d) ==
    IF d.t = "arr" THEN 1 + MaxHeightOf(d.els, 1)
    ELSE IF d.t = "obj" THEN 1 + MaxHeightOf([i \in 1..Len(d.kv) |-> d.kv[i][2]], 1)
    ELSE 0
MaxHeightOf(vs, i) ==
    IF i > Len(vs) THEN 0
    ELSE LET h == Height(vs[i])
             rest == MaxHeightOf(vs, i + 1)
         IN  IF h > rest THEN h ELSE rest

InitFind ==
    /\ pc = "data"
    /\ PipelineIdle
    /\ item = Obj(<<>>) /\ row = None
    /\ results = <<>> /\ unique = <<>>
    /\ data \in Leaves /\ candidates = <<>>
    /\ array = Arr(<<>>) /\ score = 0 /\ columns = <<>>

\* {"data": <data>}
InObject ==
    /\ pc = "data"
    /\ Height(data) < MaxHeight
    /\ data' = Obj(<<<<"data", data>>>>)
    /\ UNCHANGED <<pc, candidates, pipeline_vars, normalize_vars, dedup_vars, score_vars, csv_vars>>

\* {"count": 2, "page": <data>, "extra": [a results array]}
InObjectWithSiblings ==
    /\ pc = "data"
    /\ Height(data) < MaxHeight
    /\ data' = Obj(<<<<"count", Num(2)>>, <<"page", data>>,
                     <<"extra", Arr(<<ItemDev>>)>>>>)
    /\ UNCHANGED <<pc, candidates, pipeline_vars, normalize_vars, dedup_vars, score_vars, csv_vars>>

\* [<data>]
InArray ==
    /\ pc = "data"
    /\ Height(data) < MaxHeight
    /\ data' = Arr(<<data>>)
    /\ UNCHANGED <<pc, candidates, pipeline_vars, normalize_vars, dedup_vars, score_vars, csv_vars>>

\* [{"bibno": "7", "pace": "5", "splits": <data>}]: an element of a results array
InResultItem ==
    /\ pc = "data"
    /\ Height(data) + 1 < MaxHeight
    /\ data' = Arr(<<Obj(<<Field("bibno", "7"), Field("pace", "5"),
                           <<"splits", data>>>>)>>)
    /\ UNCHANGED <<pc, candidates, pipeline_vars, normalize_vars, dedup_vars, score_vars, csv_vars>>

Find ==
    /\ pc = "data"
    /\ candidates' = find_result_arrays(data, 0, DefaultMaxDepth)
    /\ pc' = "found"
    /\ UNCHANGED <<data, platform_key, tables, api_responses, captured_data, source>>
    /\ UNCHANGED <<normalize_vars, dedup_vars, score_vars, csv_vars>>

NextFind ==
    \/ InObject
    \/ InObjectWithSiblings
    \/ InArray
    \/ InResultItem
    \/ Find

SpecFind == InitFind /\ [][NextFind]_vars

\* the children of a value: the values of an object, the elements of an array
Children(d) ==
    IF d.t = "obj" THEN [i \in 1..Len(d.kv) |-> d.kv[i][2]]
    ELSE IF d.t = "arr" THEN d.els
    ELSE <<>>

StepKind(d) == IF d.t = "obj" THEN "key" ELSE "element"

\* the paths of at most `len` steps from a value into the tree; a step is
\* <<"key", i>> (the i-th value of an object) or <<"element", i>>
RECURSIVE PathsOf(_, _)
PathsOf(d, len) ==
    {<<>>} \cup
    (IF len = 0 THEN {}
     ELSE UNION {{<<<<StepKind(d), i>>>> \o p : p \in PathsOf(Children(d)[i], len - 1)}
                 : i \in 1..Len(Children(d))})

RECURSIVE ValueAt(_, _)
ValueAt(d, p) ==
    IF p = <<>> THEN d ELSE ValueAt(Children(d)[p[1][2]], Tail(p))

OnlyKeys(p) == \A i \in 1..Len(p) : p[i][1] = "key"

\* a non-empty array of objects that scores above the threshold
ScoredArrayOfObjects(v) ==
    /\ v.t = "arr" /\ Len(v.els) > 0
    /\ \A i \in 1..Len(v.els) : v.els[i].t = "obj"
    /\ score_result_array(v) > 2

\* a non-empty array whose first element is an object, scoring above the threshold
ScoredArray(v) ==
    /\ v.t = "arr" /\ Len(v.els) > 0
    /\ v.els[1].t = "obj"
    /\ score_result_array(v) > 2

Returned == {candidates[i] : i \in 1..Len(candidates)}

\* C6 as stated: every non-empty array of objects within depth 5 that scores
\* more than 2 is returned, also one reachable only through an element of
\* another array.
C6_EveryScoredArrayReturned ==
    pc = "found" =>
        \A p \in PathsOf(data, 5) :
            ScoredArrayOfObjects(ValueAt(data, p)) => ValueAt(data, p) \in Returned

\* C6 as amended: find_result_arrays returns exactly the non-empty arrays
\* with an object as first element that score more than 2 and lie at most 5
\* object values below the root, reached through object values only; an array
\* reachable only through an element of another array is not returned.
C6_ScoredArraysUnderObjectsReturned ==
    pc = "found" =>
        LET hits == {p \in PathsOf(data, 5) : OnlyKeys(p) /\ ScoredArray(ValueAt(data, p))}
        IN  /\ Returned = {ValueAt(data, p) : p \in hits}
            /\ Len(candidates) = Cardinality(hits)

\* a tree with a scored array under an array element, which is not returned,
\* and a scored array under object values only, which is
C6_Witness ==
    /\ pc = "found"
    /\ \E p \in PathsOf(data, 5) :
          /\ ~OnlyKeys(p)
          /\ ScoredArrayOfObjects(ValueAt(data, p))
          /\ ValueAt(data, p) \notin Returned
    /\ \E p \in PathsOf(data, 5) :
          /\ OnlyKeys(p) /\ Len(p) >= 1
          /\ ValueAt(data, p) \in Returned

(***************************************************************************)
(* scrape_dom_table on its own: a page with one table, its header row      *)
(* fixed at the start and its body rows appended one at a time, then       *)
(* scraped.                                                                *)
(***************************************************************************)
MaxBodyRows == 3

\* a source spelling as a table header would show it: underscores as spaces
RECURSIVE spaced(_)
spaced(s) ==
    IF Len(s) = 0 THEN ""
    ELSE (IF CharAt(s, 1) = "_" THEN " " ELSE CharAt(s, 1))
         \o spaced(SubSeq(s, 2, Len(s)))

\* header rows: the results header, a sponsor table's header, a header of <td>
\* cells with an unmapped first column, and a bib column next to each
\* spelling of FIELD_MAP
HeaderRows ==
    { HeaderBibNameTime,
      Cells("th", <<"Sponsor", "Logo">>),
      Cells("td", <<"Split", "Pace">>) }
    \cup { Cells("th", <<"Bib", spaced(FIELD_MAP[i][1])>>) : i \in 1..Len(FIELD_MAP) }

\* body rows: two finishers, a sub-heading row without <td> cells, and a row
\* with a single cell
BodyRows ==
    { Cells("td", <<"55", "Ravi Shah", "01:02:33">>),
      Cells("td", <<"56", "Mira Nair", " 01:03:10">>),
      Cells("th", <<"Overall">>),
      Cells("td", <<"5K">>) }

InitDom ==
    /\ pc = "table"
    /\ \E h \in HeaderRows : tables = <<<<h>>>>
    /\ platform_key = "generic" /\ api_responses = <<>>
    /\ captured_data = <<>> /\ source = "none"
    /\ item = Obj(<<>>) /\ row = None
    /\ results = <<>> /\ unique = <<>>
    /\ data = Null /\ candidates = <<>>
    /\ array = Arr(<<>>) /\ score = 0 /\ columns = <<>>

AddBodyRow(tr) ==
    /\ pc = "table"
    /\ Len(tables[1]) - 1 < MaxBodyRows
    /\ tables' = <<Append(tables[1], tr)>>
    /\ UNCHANGED <<pc, platform_key, api_responses, captured_data, source>>
    /\ UNCHANGED <<normalize_vars, dedup_vars, find_vars, score_vars, csv_vars>>

ScrapeDom ==
    /\ pc = "table"
    /\ captured_data' = scrape_dom_table(tables)
    /\ source' = "dom"
    /\ pc' = "scraped"
    /\ UNCHANGED <<platform_key, tables, api_responses>>
    /\ UNCHANGED <<normalize_vars, dedup_vars, find_vars, score_vars, csv_vars>>

NextDom ==
    \/ \E tr \in BodyRows : AddBodyRow(tr)
    \/ ScrapeDom

SpecDom == InitDom /\ [][NextDom]_vars

\* the table's body rows, and those with content in a mapped column
BodyOf(rows) == SubSeq(rows, 2, Len(rows))

HasMappedContent(tr, headers) ==
    \E i \in 1..Len(DataCells(tr)) : i \in DOMAIN HeaderMap(headers)

MappedBody(rows) ==
    LET headers == HeadersOf(rows[1])
        WithContent(tr) == HasMappedContent(tr, headers)
    IN  SelectSeq(BodyOf(rows), WithContent)

\* the row Scenario C expects of a body row under [Bib, Name, Finish Time]
ScenarioRow(tr) ==
    [bib |-> strip(tr[1].text), full_name |-> strip(tr[2].text),
     chip_time |-> strip(tr[3].text)]

\* one output row per body row with mapped content; under the scenario's
\* header a three-cell body row gives bib, full_name and chip_time
OneRowPerMappedBodyRow(rows, out) ==
    LET mapped == MappedBody(rows)
    IN  /\ Len(out) = Len(mapped)
        /\ rows[1] = HeaderBibNameTime =>
               \A n \in 1..Len(mapped) :
                   Len(DataCells(mapped[n])) = 3 => out[n] = ScenarioRow(mapped[n])

\* C12: a table that passes the results-keyword header check yields one row
\* per body row that has mapped content, also when it has exactly one body
\* row: header [Bib, Name, Finish Time] and the single body row
\* [55, Ravi Shah, 01:02:33] yield {bib: 55, full_name: Ravi Shah,
\* chip_time: 01:02:33}.
C12_OneBodyRowYieldsRow ==
    (pc = "scraped" /\ LooksLikeResults(HeadersOf(tables[1][1])))
        => OneRowPerMappedBodyRow(tables[1], captured_data)

\* C12, amended: a table that passes the header check and has at least two
\* body rows yields one row per body row that has mapped content; a table
\* with fewer than two body rows yields nothing.
C12_TwoBodyRowsNeeded ==
    (pc = "scraped" /\ LooksLikeResults(HeadersOf(tables[1][1])))
        => IF Len(BodyOf(tables[1])) >= 2
           THEN OneRowPerMappedBodyRow(tables[1], captured_data)
           ELSE captured_data = <<>>

\* the scenario's row is scraped from a table with a second body row
C12_Witness ==
    /\ pc = "scraped"
    /\ tables[1][1] = HeaderBibNameTime
    /\ Len(BodyOf(tables[1])) = 2
    /\ tables[1][2] = Cells("td", <<"55", "Ravi Shah", "01:02:33">>)
    /\ Len(captured_data) = 2
    /\ captured_data[1] = [bib |-> "55", full_name |-> "Ravi Shah", chip_time |-> "01:02:33"]

\* the field normalize_result_row gives the source key a header spells
SourceKeyField(h) == FieldMapGet(replace_space(h))

IsSpelling(h) == FieldMapHas(replace_space(h))

\* C15: a table header whose text is a source spelling of FIELD_MAP with its
\* underscores written as spaces is mapped by scrape_dom_table to the
\* canonical field normalize_result_row maps that spelling to, and the rows
\* scraped under such headers carry those fields only.
C15_HeaderMappedAsSourceKey ==
    (pc = "scraped" /\ captured_data # <<>>) =>
        LET headers == HeadersOf(tables[1][1])
            header_map == HeaderMap(headers)
        IN  /\ \A i \in 1..Len(headers) :
                  IsSpelling(headers[i]) =>
                      /\ i \in DOMAIN header_map
                      /\ header_map[i] = SourceKeyField(headers[i])
            /\ (\A i \in 1..Len(headers) : IsSpelling(headers[i])) =>
                  \A n \in 1..Len(captured_data) :
                      DOMAIN captured_data[n]
                          \subseteq {SourceKeyField(headers[i]) : i \in 1..Len(headers)}

(***************************************************************************)
(* write_csv: the column list it computes for the DictWriter.              *)
(***************************************************************************)
COLUMN_ORDER ==
    << "bib", "full_name", "first_name", "last_name", "gender", "age_group",
       "category", "race_category", "club", "city", "country", "nationality",
       "chip_time", "gun_time", "pace", "gun_pace",
       "overall_rank", "category_rank", "gender_rank" >>

\* the characters of field names in code-point order, the order sorted()
\* compares strings by
CodePoints == " 0123456789ABCDEFGHIJKLMNOPQRSTUVWXYZ_abcdefghijklmnopqrstuvwxyz"

OrdTable == [c \in {CharAt(CodePoints, i) : i \in 1..Len(CodePoints)} |->
                CHOOSE i \in 1..Len(CodePoints) : CharAt(CodePoints, i) = c]

Ord(c) == OrdTable[c]

\* a < b on str
RECURSIVE StrLess(_, _)
StrLess(a, b) ==
    IF Len(b) = 0 THEN FALSE
    ELSE IF Len(a) = 0 THEN TRUE
    ELSE IF CharAt(a, 1) # CharAt(b, 1) THEN Ord(CharAt(a, 1)) < Ord(CharAt(b, 1))
    ELSE StrLess(SubSeq(a, 2, Len(a)), SubSeq(b, 2, Len(b)))

\* a variant that sorts in descending order
RECURSIVE sorted_reverse(_)
sorted_reverse(S) ==
    IF S = {} THEN <<>>
    ELSE LET m == CHOOSE x \in S : \A y \in S \ {x} : StrLess(y, x)
         IN  <<m>> \o sorted_reverse(S \ {m})

\* sorted(S) for a set of strings
RECURSIVE sorted(_)
sorted(S) ==
    IF S = {} THEN <<>>
    ELSE LET m == CHOOSE x \in S : \A y \in S \ {x} : StrLess(x, y)
         IN  <<m>> \o sorted(S \ {m})

\* `for row in results: all_fields.update(row.keys())`
all_fields(rs) == UNION {DOMAIN rs[n] : n \in 1..Len(rs)}

\* columns = ordered + extras
write_csv(rs) ==
    LET fields == all_fields(rs)
        Present(c) == c \in fields
        ordered == SelectSeq(COLUMN_ORDER, Present)
        extras == sorted(fields \ {ordered[i] : i \in 1..Len(ordered)})
    IN  ordered \o extras

(***************************************************************************)
(* write_csv on its own: a result set is built one row at a time, then     *)
(* written.                                                                *)
(***************************************************************************)
MaxCsvRows == 3

\* rows by their field names: preferred fields, the age field the
\* normalizer emits, and other names
CsvRow(ks) == [k \in ks |-> "x"]

CsvRows ==
    { CsvRow({"bib", "full_name", "chip_time"}),
      CsvRow({"gender_rank", "bib", "age"}),
      CsvRow({"team_id", "team", "club"}),
      CsvRow({"Zone", "age", "gun_pace"}),
      CsvRow({"t10k"}),
      CsvRow({"city", "first_name"}) }

InitCsv ==
    /\ pc = "rows"
    /\ results = <<>> /\ columns = <<>>
    /\ PipelineIdle
    /\ item = Obj(<<>>) /\ row = None
    /\ unique = <<>>
    /\ data = Null /\ candidates = <<>>
    /\ array = Arr(<<>>) /\ score = 0

AppendCsvRow(r) ==
    /\ pc = "rows"
    /\ Len(results) < MaxCsvRows
    /\ results' = Append(results, r)
    /\ UNCHANGED <<pc, unique, columns, pipeline_vars, normalize_vars, find_vars, score_vars>>

\* `if not results: return` writes no file
WriteCsv ==
    /\ pc = "rows"
    /\ columns' = IF results = <<>> THEN columns ELSE write_csv(results)
    /\ pc' = "written"
    /\ UNCHANGED <<platform_key, tables, api_responses, captured_data, source>>
    /\ UNCHANGED <<normalize_vars, dedup_vars, find_vars, score_vars>>

NextCsv ==
    \/ \E r \in CsvRows : AppendCsvRow(r)
    \/ WriteCsv

SpecCsv == InitCsv /\ [][NextCsv]_vars

Preferred(c) == \E i \in 1..Len(COLUMN_ORDER) : COLUMN_ORDER[i] = c

PreferredIndex(c) == CHOOSE i \in 1..Len(COLUMN_ORDER) : COLUMN_ORDER[i] = c

\* lexicographic order: a is a proper prefix of b, or the first position where
\* they differ holds the smaller character in a
LexLess(a, b) ==
    \E k \in 1..Len(b) :
        /\ k - 1 <= Len(a)
        /\ SubSeq(a, 1, k - 1) = SubSeq(b, 1, k - 1)
        /\ \/ k > Len(a)
           \/ Ord(CharAt(a, k)) < Ord(CharAt(b, k))

Orders(n) == {p \in [1..n -> 1..n] : \A i, j \in 1..n : i # j => p[i] # p[j]}

Permuted(rs, p) == [i \in 1..Len(rs) |-> rs[p[i]]]

\* C13: the column list is the preferred fields that appear in at least one
\* row, in the preferred order, followed by every other field name that
\* appears, in lexicographic order; it holds every key of every row exactly
\* once and is the same for every permutation of the rows.
C13_ColumnsPreferredThenSorted ==
    (pc = "written" /\ results # <<>>) =>
        /\ {columns[i] : i \in 1..Len(columns)} = all_fields(results)
        /\ \A i, j \in 1..Len(columns) :
              i < j =>
                /\ columns[i] # columns[j]
                /\ Preferred(columns[j]) => Preferred(columns[i])
                /\ (Preferred(columns[i]) /\ Preferred(columns[j]))
                      => PreferredIndex(columns[i]) < PreferredIndex(columns[j])
                /\ (~Preferred(columns[i]) /\ ~Preferred(columns[j]))
                      => LexLess(columns[i], columns[j])
        /\ \A p \in Orders(Len(results)) :
              write_csv(Permuted(results, p)) = columns

\* two rows whose fields first appear in another order than the one written
C13_Witness ==
    /\ pc = "written"
    /\ results = <<CsvRow({"team_id", "team", "club"}), CsvRow({"Zone", "age", "gun_pace"}),
                   CsvRow({"gender_rank", "bib", "age"})>>
    /\ columns = <<"bib", "club", "gun_pace", "gender_rank", "Zone", "age", "team", "team_id">>

(***************************************************************************)
(* score_result_array on its own: an array is grown one element at a time  *)
(* behind its first element, then scored.                                  *)
(***************************************************************************)
MaxArrayLen == 102

\* first elements: a results row, a single upper-case bib key, an object
\* without any indicator key, and a string
Samples ==
    { ItemAsha, Obj(<<Field("BibNo", "7")>>), Obj(<<Field("split", "5K")>>), Str("5K") }

InitScore ==
    /\ pc = "array"
    /\ \E sample \in Samples : array = Arr(<<sample>>)
    /\ score = 0
    /\ PipelineIdle
    /\ item = Obj(<<>>) /\ row = None
    /\ results = <<>> /\ unique = <<>>
    /\ data = Null /\ candidates = <<>>
    /\ columns = <<>>

\* one more element like the first
Extend ==
    /\ pc = "array"
    /\ Len(array.els) < MaxArrayLen
    /\ array.els[Len(array.els)] = array.els[1]
    /\ array' = Arr(Append(array.els, array.els[1]))
    /\ UNCHANGED <<pc, score, pipeline_vars, normalize_vars, dedup_vars, find_vars, csv_vars>>

\* one more element of another shape: only arr[0] is sampled
ExtendOther ==
    /\ pc = "array"
    /\ Len(array.els) < MaxArrayLen
    /\ array' = Arr(Append(array.els, ItemMenu))
    /\ UNCHANGED <<pc, score, pipeline_vars, normalize_vars, dedup_vars, find_vars, csv_vars>>

Score ==
    /\ pc = "array"
    /\ score' = score_result_array(array)
    /\ pc' = "scored"
    /\ UNCHANGED <<array, platform_key, tables, api_responses, captured_data, source>>
    /\ UNCHANGED <<normalize_vars, dedup_vars, find_vars, csv_vars>>

NextScore ==
    \/ Extend
    \/ ExtendOther
    \/ Score

SpecScore == InitScore /\ [][NextScore]_vars

\* the 20-element array with the same first element
First20 == Arr(SubSeq(array.els, 1, 20))

\* C14: for arrays whose first element has the identical key set, every array
\* of more than 20 elements scores exactly 2 more than the 20-element array,
\* whatever its length.
C14_LongerThan20ScoresTwoMore ==
    (pc = "scored" /\ IsObj(array.els[1]) /\ Len(array.els) > 20)
        => score = score_result_array(First20) + 2

\* C14, amended: an array of 21 to 100 elements scores exactly 2 more than the
\* 20-element array with the same first element, and an array of more than
\* 100 elements scores exactly 4 more.
C14_SizeBonusSteps ==
    (pc = "scored" /\ IsObj(array.els[1]) /\ Len(array.els) > 20)
        => score = score_result_array(First20)
                   + (IF Len(array.els) > 100 THEN 4 ELSE 2)

\* a results array of 101 elements is scored 4 above its 20-element prefix
C14_Witness ==
    /\ pc = "scored"
    /\ Len(array.els) = 101
    /\ array.els[1] = ItemAsha
    /\ score_result_array(First20) = 8
    /\ score = 12

====
